---- MODULE Spec2Model ----
(***************************************************************************)
(* The vc4 backend of minigbm (src/vc4.c): layout computation, modifier     *)
(* negotiation and the CREATE / SET_TILING / DESTROY kernel transaction.    *)
(*                                                                          *)
(* Numbers.  The C code computes with uint32_t.  TLC's integers are 32-bit  *)
(* signed, so a number is held as its little-endian sequence of bytes       *)
(* (base 2^8): a natural number of any size is a byte sequence without      *)
(* trailing zero bytes, and a uint32_t is the natural number truncated to   *)
(* exactly four bytes (that is, taken modulo 2^32).                         *)
(***************************************************************************)
EXTENDS Integers, Sequences, FiniteSets, TLC

VARIABLES bo, phase, live, errno, call, ret, reqs, vma

vars == <<bo, phase, live, errno, call, ret, reqs, vma>>

-----------------------------------------------------------------------------
(* Natural numbers of unbounded size, as little-endian byte sequences.      *)

RECURSIVE NatOf(_)
NatOf(k) == IF k = 0 THEN <<>> ELSE <<k % 256>> \o NatOf(k \div 256)

RECURSIVE Strip(_)
Strip(s) ==
  IF s = <<>> THEN <<>>
  ELSE IF s[Len(s)] = 0 THEN Strip(SubSeq(s, 1, Len(s) - 1)) ELSE s

Dig(s, i) == IF i >= 1 /\ i <= Len(s) THEN s[i] ELSE 0

\* Propagates carries through a sequence of (possibly large) digits.
RECURSIVE Carry(_, _)
Carry(s, c) ==
  IF s = <<>>
  THEN (IF c = 0 THEN <<>> ELSE <<c % 256>> \o Carry(<<>>, c \div 256))
  ELSE <<(s[1] + c) % 256>> \o Carry(Tail(s), (s[1] + c) \div 256)

MaxOf(a, b) == IF a >= b THEN a ELSE b

NAdd(a, b) ==
  Strip(Carry([i \in 1..MaxOf(Len(a), Len(b)) |-> Dig(a, i) + Dig(b, i)], 0))

RECURSIVE ConvSum(_, _, _, _)
ConvSum(a, b, k, i) ==
  IF i > Len(a) THEN 0 ELSE Dig(a, i) * Dig(b, k + 1 - i) + ConvSum(a, b, k, i + 1)

NMul(a, b) ==
  Strip(Carry([k \in 1..(Len(a) + Len(b)) |-> ConvSum(a, b, k, 1)], 0))

\* a <= b, for stripped a and b: compares from the most significant byte.
RECURSIVE NLeqFrom(_, _, _)
NLeqFrom(a, b, i) ==
  IF i = 0 THEN TRUE
  ELSE IF a[i] # b[i] THEN a[i] < b[i]
  ELSE NLeqFrom(a, b, i - 1)

NLeq(a, b) ==
  IF Len(a) # Len(b) THEN Len(a) < Len(b) ELSE NLeqFrom(a, b, Len(a))

\* Quotient of a by the small positive integer d (long division).
RECURSIVE DivFrom(_, _, _, _)
DivFrom(a, d, i, r) ==
  IF i = 0 THEN <<>>
  ELSE DivFrom(a, d, i - 1, (r * 256 + a[i]) % d) \o <<(r * 256 + a[i]) \div d>>

NDivSmall(a, d) == Strip(DivFrom(a, d, Len(a), 0))

\* a rounded up to the next multiple of the small positive integer m.
NRoundUp(a, m) == NMul(NDivSmall(NAdd(a, NatOf(m - 1)), m), NatOf(m))

-----------------------------------------------------------------------------
(* uint32_t: exactly four bytes, arithmetic modulo 2^32.                    *)

Trunc32(a) == [i \in 1..4 |-> Dig(a, i)]

U32(k) == Trunc32(NatOf(k))

ToNat(x) == Strip(x)

Add32(x, y) == Trunc32(NAdd(ToNat(x), ToNat(y)))

Mul32(x, y) == Trunc32(NMul(ToNat(x), ToNat(y)))

Leq32(x, y) == NLeq(ToNat(x), ToNat(y))

Not32(x) == [i \in 1..4 |-> 255 - x[i]]

RECURSIVE BitAnd(_, _, _)
BitAnd(p, q, n) ==
  IF n = 0 THEN 0
  ELSE (p % 2) * (q % 2) + 2 * BitAnd(p \div 2, q \div 2, n - 1)

And32(x, y) == [i \in 1..4 |-> BitAnd(x[i], y[i], 8)]

\* x - y modulo 2^32 (two's complement).
Sub32(x, y) == Add32(x, Add32(Not32(y), U32(1)))

Div32(x, d) == Trunc32(NDivSmall(ToNat(x), d))

-----------------------------------------------------------------------------
(* Bounds of the model.                                                     *)

\* Kernel handles are drawn from 1..MaxHandles; CREATE fails when none is free.
MaxHandles == 2

\* Longest candidate modifier list passed to vc4_bo_create_with_modifiers.
MaxCount == 2

-----------------------------------------------------------------------------
(* Program constants.                                                       *)

VC4_TILING_FORMAT_LINEAR == 0
VC4_TILING_FORMAT_T == 1
VC4_TILING_FORMAT_LT == 2

EINVAL == 22

\* Modifiers.  DRM_FORMAT_MOD_LINEAR is the value 0, which is also what a
\* freshly zeroed buffer object holds.
DRM_FORMAT_MOD_LINEAR == "LINEAR"
DRM_FORMAT_MOD_BROADCOM_VC4_T_TILED == "VC4_T_TILED"
DRM_FORMAT_MOD_INVALID == "INVALID"
\* A modifier of another vendor, which this backend does not know.
DRM_FORMAT_MOD_OTHER == "OTHER"

Modifiers ==
  {DRM_FORMAT_MOD_LINEAR, DRM_FORMAT_MOD_BROADCOM_VC4_T_TILED, DRM_FORMAT_MOD_OTHER}

render_target_formats == <<"ARGB8888", "RGB565", "XRGB8888">>

texture_only_formats == <<"NV12", "YVU420">>

Planes == 1..4

Range(s) == {s[i] : i \in DOMAIN s}

-----------------------------------------------------------------------------
(* The Format Helper (helpers.h): per-format plane tables and the generic   *)
(* linear layout.  Plane p of the C code is index p + 1 here.               *)

Formats ==
  {"ARGB8888", "RGB565", "XRGB8888", "NV12", "YVU420", "R8", "RGB888", "ABGR16161616F"}

drv_num_planes_from_format(format) ==
  CASE format = "NV12" -> 2
    [] format = "YVU420" -> 3
    [] OTHER -> 1

bytes_per_pixel(format) ==
  CASE format \in {"ARGB8888", "XRGB8888"} -> <<4>>
    [] format = "RGB565" -> <<2>>
    [] format = "R8" -> <<1>>
    [] format = "RGB888" -> <<3>>
    [] format = "ABGR16161616F" -> <<8>>
    [] format = "NV12" -> <<1, 2>>
    [] format = "YVU420" -> <<1, 1, 1>>

horizontal_subsampling(format) ==
  CASE format = "NV12" -> <<1, 2>>
    [] format = "YVU420" -> <<1, 2, 2>>
    [] OTHER -> <<1>>

vertical_subsampling(format) ==
  CASE format = "NV12" -> <<1, 2>>
    [] format = "YVU420" -> <<1, 2, 2>>
    [] OTHER -> <<1>>

drv_bytes_per_pixel_from_format(format, plane) == bytes_per_pixel(format)[plane]

\* (((n) + (d)-1) / (d)) on uint32_t operands.
DIV_ROUND_UP(n, d) == Div32(Add32(n, U32(d - 1)), d)

\* (((A) + (B)-1) & ~((B)-1)) on uint32_t operands.
ALIGN(A, B) == And32(Sub32(Add32(A, B), U32(1)), Not32(Sub32(B, U32(1))))

drv_stride_from_format(format, width, plane) ==
  Mul32(DIV_ROUND_UP(width, horizontal_subsampling(format)[plane]),
        U32(bytes_per_pixel(format)[plane]))

subsample_stride(stride, format, plane) ==
  IF plane # 1 /\ format = "YVU420" THEN DIV_ROUND_UP(stride, 2) ELSE stride

drv_size_from_format(format, stride, height, plane) ==
  Mul32(stride, DIV_ROUND_UP(height, vertical_subsampling(format)[plane]))

PlaneStride(stride, format, p) ==
  IF p <= drv_num_planes_from_format(format)
  THEN subsample_stride(stride, format, p) ELSE U32(0)

PlaneSize(stride, aligned_height, format, p) ==
  IF p <= drv_num_planes_from_format(format)
  THEN drv_size_from_format(format, PlaneStride(stride, format, p), aligned_height, p)
  ELSE U32(0)

\* The running uint32_t offset before plane p (the sum of the earlier sizes).
RECURSIVE PlaneOffset(_, _, _, _)
PlaneOffset(stride, aligned_height, format, p) ==
  IF p = 1 THEN U32(0)
  ELSE Add32(PlaneOffset(stride, aligned_height, format, p - 1),
             PlaneSize(stride, aligned_height, format, p - 1))

drv_bo_from_format(b, stride, aligned_height, format) ==
  [b EXCEPT
     !.strides = [p \in Planes |->
                    IF p <= drv_num_planes_from_format(format)
                    THEN PlaneStride(stride, format, p) ELSE b.strides[p]],
     !.sizes = [p \in Planes |->
                  IF p <= drv_num_planes_from_format(format)
                  THEN PlaneSize(stride, aligned_height, format, p) ELSE b.sizes[p]],
     !.offsets = [p \in Planes |->
                    IF p <= drv_num_planes_from_format(format)
                    THEN PlaneOffset(stride, aligned_height, format, p)
                    ELSE b.offsets[p]],
     !.total_size =
        PlaneOffset(stride, aligned_height, format,
                    drv_num_planes_from_format(format) + 1)]

\* The generic layer allocates a zeroed buffer object and fills in its
\* format, dimensions and plane count before calling the backend.
drv_bo_new(format, width, height) ==
  [format |-> format, width |-> width, height |-> height,
   num_planes |-> drv_num_planes_from_format(format),
   format_modifier |-> DRM_FORMAT_MOD_LINEAR,
   tiling |-> 0,
   strides |-> [p \in Planes |-> U32(0)],
   sizes |-> [p \in Planes |-> U32(0)],
   offsets |-> [p \in Planes |-> U32(0)],
   total_size |-> U32(0),
   handles |-> [p \in Planes |-> 0]]

-----------------------------------------------------------------------------
(* The kernel device (DRM): the table of live GEM handles of the device     *)
(* file, and the outcome of each request.  CREATE and SET_TILING may fail   *)
(* for reasons of the kernel's own; DESTROY (GEM close) releases a handle   *)
(* that is in the table and fails as "not found" (EINVAL) otherwise.  The   *)
(* device file is shared with its owner, so a handle may leave the table    *)
(* between two requests of this backend (k.lost).                           *)

Handles == 1..MaxHandles

\* Error codes the kernel reports for a failed CREATE or SET_TILING.
KernelErrors == {12, 22}

\* The outcomes of one creation's requests: k.create is 0 or the CREATE
\* error, k.handle the handle CREATE returns, k.lost whether the handle is
\* closed through the shared device file right after CREATE, k.tiling is 0
\* or the error of a SET_TILING on a handle that is in the table.
KernelScripts(liveSet) ==
  {[create |-> e, handle |-> 0, lost |-> FALSE, tiling |-> 0] : e \in KernelErrors}
  \cup {[create |-> 0, handle |-> h, lost |-> FALSE, tiling |-> t] :
          h \in Handles \ liveSet, t \in {0} \cup KernelErrors}
  \cup {[create |-> 0, handle |-> h, lost |-> TRUE, tiling |-> 0] :
          h \in Handles \ liveSet}

KernelSetTiling(liveSet, handle, modifier, k) ==
  IF handle \notin liveSet THEN 2
  ELSE IF modifier \notin {DRM_FORMAT_MOD_LINEAR, DRM_FORMAT_MOD_BROADCOM_VC4_T_TILED}
  THEN EINVAL
  ELSE k.tiling

KernelDestroy(liveSet, handle) == IF handle \in liveSet THEN 0 ELSE EINVAL

Request(op, handle, arg, res) == [op |-> op, handle |-> handle, arg |-> arg, res |-> res]

\* drmIoctl: a failed request stores its error code in errno, a successful
\* one leaves errno as it was.
ErrnoAfter(e, res) == IF res # 0 THEN res ELSE e

-----------------------------------------------------------------------------
(* drv_gem_bo_destroy (helpers.h): one DESTROY per distinct plane handle.   *)

RECURSIVE GemClosePlanes(_, _, _)
GemClosePlanes(b, plane, st) ==
  IF plane > b.num_planes THEN st
  ELSE IF \E i \in 1..(plane - 1) : b.handles[i] = b.handles[plane]
  THEN GemClosePlanes(b, plane + 1, st)
  ELSE LET res == KernelDestroy(st.live, b.handles[plane])
       IN GemClosePlanes(b, plane + 1,
            [live |-> st.live \ {b.handles[plane]},
             errno |-> ErrnoAfter(st.errno, res),
             reqs |-> Append(st.reqs, Request("DESTROY", b.handles[plane], 0, res)),
             error |-> IF res # 0 THEN -res ELSE st.error])

drv_gem_bo_destroy(b, liveSet, e, log) ==
  GemClosePlanes(b, 1, [live |-> liveSet, errno |-> e, reqs |-> log, error |-> 0])

-----------------------------------------------------------------------------
(* The combination table built by vc4_init.                                 *)

BO_USE_RENDER_MASK == {"LINEAR", "RENDERING", "SW_ACCESS", "TEXTURE"}

BO_USE_TEXTURE_MASK == {"LINEAR", "SW_ACCESS", "TEXTURE"}

vc4_init ==
  [f \in Range(render_target_formats) |->
     [modifier |-> DRM_FORMAT_MOD_LINEAR,
      use_flags |-> BO_USE_RENDER_MASK
                    \cup (IF f \in {"ARGB8888", "XRGB8888"}
                          THEN {"CURSOR", "SCANOUT"} ELSE {})]]
  @@
  [f \in Range(texture_only_formats) |->
     [modifier |-> DRM_FORMAT_MOD_LINEAR,
      use_flags |-> BO_USE_TEXTURE_MASK
                    \cup (IF f = "YVU420" THEN {"HW_VIDEO_ENCODER"}
                          ELSE {"HW_VIDEO_DECODER", "SCANOUT", "HW_VIDEO_ENCODER"})]]

\* The combinations for format whose use flags cover use_flags (none: NULL).
drv_get_combination(format, use_flags) ==
  {c \in {vc4_init[f] : f \in (DOMAIN vc4_init) \cap {format}} :
     use_flags \subseteq c.use_flags}

\* The first entry of modifier_order that is among the candidates.
RECURSIVE drv_pick_modifier(_, _)
drv_pick_modifier(modifiers, order) ==
  IF order = <<>> THEN DRM_FORMAT_MOD_INVALID
  ELSE IF \E j \in 1..Len(modifiers) : modifiers[j] = Head(order)
  THEN Head(order)
  ELSE drv_pick_modifier(modifiers, Tail(order))

-----------------------------------------------------------------------------
(* src/vc4.c                                                                *)

vc4_utile_width(bytes_per_pixel_) ==
  CASE bytes_per_pixel_ \in {1, 2} -> 8
    [] bytes_per_pixel_ = 4 -> 4
    [] bytes_per_pixel_ = 8 -> 2
    [] OTHER -> 0

vc4_utile_height(bytes_per_pixel_) ==
  CASE bytes_per_pixel_ = 1 -> 8
    [] bytes_per_pixel_ \in {2, 4, 8} -> 4
    [] OTHER -> 0

\* vc4_size_is_lt with < in place of <=.
vc4_size_is_lt_Strict(width, height, bytes_per_pixel_) ==
  \/ ~Leq32(U32(4 * vc4_utile_width(bytes_per_pixel_)), width)
  \/ ~Leq32(U32(4 * vc4_utile_height(bytes_per_pixel_)), height)

vc4_size_is_lt(width, height, bytes_per_pixel_) ==
  \/ Leq32(width, U32(4 * vc4_utile_width(bytes_per_pixel_)))
  \/ Leq32(height, U32(4 * vc4_utile_height(bytes_per_pixel_)))

\* Lines 104-129: the layout of a T-tiled buffer.
TiledLayout(b, width, height, format) ==
  LET bpp == drv_bytes_per_pixel_from_format(format, 1)
      utile_width == vc4_utile_width(bpp)
      utile_height == vc4_utile_height(bpp)
      lt == vc4_size_is_lt(width, height, bpp)
      level_width == IF lt THEN ALIGN(width, U32(utile_width))
                     ELSE ALIGN(width, U32(4 * 2 * utile_width))
      level_height == IF lt THEN ALIGN(height, U32(utile_height))
                      ELSE ALIGN(height, U32(4 * 2 * utile_height))
      stride0 == Mul32(level_width, U32(bpp))
      size0 == Mul32(level_height, stride0)
      b1 == [b EXCEPT
               !.tiling = IF lt THEN VC4_TILING_FORMAT_LT ELSE VC4_TILING_FORMAT_T,
               !.strides[1] = stride0,
               !.sizes[1] = size0,
               !.offsets[1] = size0,
               !.total_size = size0]
  IN drv_bo_from_format(b1, b1.strides[1], level_height, format)

\* Lines 130-141: the layout of a linear buffer.
LinearStride(format, width) == ALIGN(drv_stride_from_format(format, width, 1), U32(64))

LinearLayout(b, width, height, format) ==
  drv_bo_from_format([b EXCEPT !.tiling = VC4_TILING_FORMAT_LINEAR],
                     LinearStride(format, width), height, format)

\* ConfigureTiling without the rollback of line 161.
ConfigureTiling_NoRollback(b, modifier, liveSet, e, log, k) ==
  LET res == KernelSetTiling(liveSet, b.handles[1], modifier, k)
      log1 == Append(log, Request("SET_TILING", b.handles[1], modifier, res))
      e1 == ErrnoAfter(e, res)
  IN [bo |-> b, live |-> liveSet, errno |-> e1,
      ret |-> IF res # 0 THEN -e1 ELSE 0, reqs |-> log1]

\* ConfigureTiling that skips SET_TILING for the linear modifier.
ConfigureTiling_TiledOnly(b, modifier, liveSet, e, log, k) ==
  LET res == KernelSetTiling(liveSet, b.handles[1], modifier, k)
      log1 == Append(log, Request("SET_TILING", b.handles[1], modifier, res))
      e1 == ErrnoAfter(e, res)
      d == drv_gem_bo_destroy(b, liveSet, e1, log1)
  IN IF modifier = DRM_FORMAT_MOD_LINEAR
     THEN [bo |-> b, live |-> liveSet, errno |-> e, ret |-> 0, reqs |-> log]
     ELSE IF res # 0
     THEN [bo |-> b, live |-> d.live, errno |-> d.errno, ret |-> -d.errno,
           reqs |-> d.reqs]
     ELSE [bo |-> b, live |-> liveSet, errno |-> e1, ret |-> 0, reqs |-> log1]

\* Lines 159-165: SET_TILING, and the rollback when it fails.
ConfigureTiling(b, modifier, liveSet, e, log, k) ==
  LET res == KernelSetTiling(liveSet, b.handles[1], modifier, k)
      log1 == Append(log, Request("SET_TILING", b.handles[1], modifier, res))
      e1 == ErrnoAfter(e, res)
      d == drv_gem_bo_destroy(b, liveSet, e1, log1)
  IN IF res # 0
     THEN [bo |-> b, live |-> d.live, errno |-> d.errno, ret |-> -d.errno,
           reqs |-> d.reqs]
     ELSE [bo |-> b, live |-> liveSet, errno |-> e1, ret |-> 0, reqs |-> log1]

\* Transaction that answers a failed CREATE with -EINVAL instead of -errno.
Transaction_FixedError(b, modifier, liveSet, e, k) ==
  LET log == <<Request("CREATE", k.handle, b.total_size, k.create)>>
      b1 == [b EXCEPT !.handles = [p \in Planes |->
                                     IF p <= b.num_planes THEN k.handle
                                     ELSE b.handles[p]]]
      live1 == IF k.lost THEN liveSet ELSE liveSet \cup {k.handle}
  IN IF k.create # 0
     THEN [bo |-> b, live |-> liveSet, errno |-> ErrnoAfter(e, k.create),
           ret |-> -EINVAL, reqs |-> log]
     ELSE ConfigureTiling(b1, modifier, live1, e, log, k)

\* Transaction without the return of line 149: it goes on to SET_TILING
\* after a failed CREATE.
Transaction_ContinueAfterFailure(b, modifier, liveSet, e, k) ==
  LET log == <<Request("CREATE", k.handle, b.total_size, k.create)>>
      b1 == [b EXCEPT !.handles = [p \in Planes |->
                                     IF p <= b.num_planes THEN k.handle
                                     ELSE b.handles[p]]]
      live1 == IF k.lost \/ k.create # 0 THEN liveSet ELSE liveSet \cup {k.handle}
  IN ConfigureTiling(b1, modifier, live1, ErrnoAfter(e, k.create), log, k)

\* Transaction that records the created handle on the first plane only.
Transaction_FirstPlaneOnly(b, modifier, liveSet, e, k) ==
  LET log == <<Request("CREATE", k.handle, b.total_size, k.create)>>
      b1 == [b EXCEPT !.handles[1] = k.handle]
      live1 == IF k.lost THEN liveSet ELSE liveSet \cup {k.handle}
  IN IF k.create # 0
     THEN [bo |-> b, live |-> liveSet, errno |-> ErrnoAfter(e, k.create),
           ret |-> -ErrnoAfter(e, k.create), reqs |-> log]
     ELSE ConfigureTiling(b1, modifier, live1, e, log, k)

\* Lines 143-167: CREATE, the handle recorded on every plane, SET_TILING.
Transaction(b, modifier, liveSet, e, k) ==
  LET log == <<Request("CREATE", k.handle, b.total_size, k.create)>>
      b1 == [b EXCEPT !.handles = [p \in Planes |->
                                     IF p <= b.num_planes THEN k.handle
                                     ELSE b.handles[p]]]
      live1 == IF k.lost THEN liveSet ELSE liveSet \cup {k.handle}
  IN IF k.create # 0
     THEN [bo |-> b, live |-> liveSet, errno |-> ErrnoAfter(e, k.create),
           ret |-> -ErrnoAfter(e, k.create), reqs |-> log]
     ELSE ConfigureTiling(b1, modifier, live1, e, log, k)

\* Layout without the assignment of line 102.
Layout_ModifierNotRecorded(b, width, height, format, modifier) ==
  IF modifier = DRM_FORMAT_MOD_BROADCOM_VC4_T_TILED
  THEN TiledLayout(b, width, height, format)
  ELSE LinearLayout(b, width, height, format)

\* Lines 102-141: the modifier recorded and the layout computed.
Layout(b, width, height, format, modifier) ==
  IF modifier = DRM_FORMAT_MOD_BROADCOM_VC4_T_TILED
  THEN TiledLayout([b EXCEPT !.format_modifier = modifier], width, height, format)
  ELSE LinearLayout([b EXCEPT !.format_modifier = modifier], width, height, format)

\* The functions below return the set of their possible results, one for
\* each way the kernel may answer the requests they issue.
vc4_bo_create_for_modifier(b, width, height, format, modifier, liveSet, e) ==
  IF modifier \notin {DRM_FORMAT_MOD_LINEAR, DRM_FORMAT_MOD_BROADCOM_VC4_T_TILED}
  THEN {[bo |-> b, live |-> liveSet, errno |-> e, ret |-> -EINVAL, reqs |-> <<>>]}
  ELSE LET b2 == Layout(b, width, height, format, modifier)
       IN {Transaction(b2, modifier, liveSet, e, k) : k \in KernelScripts(liveSet)}

vc4_bo_create(b, width, height, format, use_flags, liveSet, e) ==
  LET combo == drv_get_combination(format, use_flags)
  IN IF combo = {}
     THEN {[bo |-> b, live |-> liveSet, errno |-> e, ret |-> -EINVAL, reqs |-> <<>>]}
     ELSE vc4_bo_create_for_modifier(b, width, height, format,
                                     (CHOOSE c \in combo : TRUE).modifier,
                                     liveSet, e)

\* modifier_order with linear preferred.
modifier_order_LinearFirst ==
  <<DRM_FORMAT_MOD_LINEAR, DRM_FORMAT_MOD_BROADCOM_VC4_T_TILED>>

modifier_order == <<DRM_FORMAT_MOD_BROADCOM_VC4_T_TILED, DRM_FORMAT_MOD_LINEAR>>

vc4_bo_create_with_modifiers(b, width, height, format, modifiers, liveSet, e) ==
  vc4_bo_create_for_modifier(b, width, height, format,
                             drv_pick_modifier(modifiers, modifier_order),
                             liveSet, e)

-----------------------------------------------------------------------------
(* Mapping.  vc4_bo_map asks the kernel for the mappable offset of the      *)
(* buffer (DRM_VC4_MMAP_BO), records the length of the mapping in the vma   *)
(* and maps the buffer with mmap(2).  A call returns MAP_FAILED or the      *)
(* address of the mapping, here 4096 * handle.  The result of a call is the *)
(* object, the vma, the handle table, errno, the returned address and the   *)
(* requests issued.                                                         *)

MAP_FAILED == -1

MapFlagChoices == {{"READ"}, {"READ", "WRITE"}}

drv_get_prot(map_flags) ==
  IF "WRITE" \in map_flags THEN {"PROT_READ", "PROT_WRITE"} ELSE {"PROT_READ"}

\* What the kernel answers during one vc4_bo_map: the result of
\* DRM_VC4_MMAP_BO on a live handle and, when that succeeded, of mmap(2).
MapScripts ==
  {k \in [mmap_bo : {0} \cup KernelErrors, mmap : {0, 12}] :
     k.mmap_bo # 0 => k.mmap = 0}

KernelMmapBo(liveSet, handle, k) == IF handle \notin liveSet THEN 2 ELSE k.mmap_bo

\* A map that asks for the offset of the handle of the plane it was given,
\* and maps and records the size of that plane only.
vc4_bo_map_PlaneOnly(b, v, plane, map_flags, liveSet, e) ==
  {LET handle == b.handles[plane]
       res == KernelMmapBo(liveSet, handle, k)
       log == <<Request("MMAP_BO", handle, 0, res)>>
   IN IF res # 0
      THEN [bo |-> b, vma |-> v, live |-> liveSet, errno |-> ErrnoAfter(e, res),
            ret |-> MAP_FAILED, reqs |-> log]
      ELSE [bo |-> b, vma |-> [v EXCEPT !.length = b.sizes[plane]],
            live |-> liveSet, errno |-> ErrnoAfter(e, k.mmap),
            ret |-> IF k.mmap # 0 THEN MAP_FAILED ELSE 4096 * handle,
            reqs |-> Append(log, Request("mmap", handle,
                                         <<b.sizes[plane], drv_get_prot(map_flags)>>,
                                         k.mmap))]
   : k \in MapScripts}

\* A map that gives the buffer up when the offset request fails.
vc4_bo_map_Destructive(b, v, plane, map_flags, liveSet, e) ==
  {LET handle == b.handles[1]
       res == KernelMmapBo(liveSet, handle, k)
       log == <<Request("MMAP_BO", handle, 0, res)>>
       d == drv_gem_bo_destroy(b, liveSet, ErrnoAfter(e, res), log)
   IN IF res # 0
      THEN [bo |-> b, vma |-> v, live |-> d.live, errno |-> d.errno,
            ret |-> MAP_FAILED, reqs |-> d.reqs]
      ELSE [bo |-> b, vma |-> [v EXCEPT !.length = b.total_size],
            live |-> liveSet, errno |-> ErrnoAfter(e, k.mmap),
            ret |-> IF k.mmap # 0 THEN MAP_FAILED ELSE 4096 * handle,
            reqs |-> Append(log, Request("mmap", handle,
                                         <<b.total_size, drv_get_prot(map_flags)>>,
                                         k.mmap))]
   : k \in MapScripts}

vc4_bo_map(b, v, plane, map_flags, liveSet, e) ==
  {LET handle == b.handles[1]
       res == KernelMmapBo(liveSet, handle, k)
       e1 == ErrnoAfter(e, res)
       v1 == [v EXCEPT !.length = b.total_size]
   IN IF res # 0
      THEN [bo |-> b, vma |-> v, live |-> liveSet, errno |-> e1,
            ret |-> MAP_FAILED,
            reqs |-> <<Request("MMAP_BO", handle, 0, res)>>]
      ELSE [bo |-> b, vma |-> v1, live |-> liveSet,
            errno |-> ErrnoAfter(e1, k.mmap),
            ret |-> IF k.mmap # 0 THEN MAP_FAILED ELSE 4096 * handle,
            reqs |-> <<Request("MMAP_BO", handle, 0, res),
                       Request("mmap", handle,
                               <<b.total_size, drv_get_prot(map_flags)>>,
                               k.mmap)>>]
   : k \in MapScripts}

-----------------------------------------------------------------------------
(* The state machine.  bo is the buffer object the generic layer is         *)
(* working on, phase its position: "none" (no object), "new" (allocated,    *)
(* backend not yet called), "ready" (creation returned 0), "failed"         *)
(* (creation returned an error), "in_use" (created, and vc4_bo_map has been *)
(* called on it since; vma is the record that call was given).  live is the kernel's handle table.  call, *)
(* ret, reqs and errno record the last backend call: its arguments, its     *)
(* return value, the kernel requests it issued, and the thread's errno as   *)
(* those requests left it (0 before any of them failed: the code reads      *)
(* errno only after a failed request has set it).                           *)

NoBo == [format |-> "NONE"]

NoCall == [op |-> "none", use_flags |-> {}, modifiers |-> <<>>]

\* The zeroed vma the generic layer hands to bo_map.
NoVma == [length |-> U32(0)]

MAX32 == <<255, 255, 255, 255>>

\* The (width, height) pairs of the creation requests: zero dimensions, each
\* side of the SmallTiled thresholds 4 * utile (8, 16, 32 wide; 16, 32 high)
\* with the other dimension above its threshold, the sizes of the worked
\* examples, and dimensions at which 32-bit arithmetic wraps.
Dims ==
  {<<U32(d[1]), U32(d[2])>> :
     d \in {<<0, 0>>, <<0, 33>>, <<33, 0>>,
            <<8, 33>>, <<9, 33>>, <<16, 33>>, <<17, 33>>, <<32, 33>>, <<33, 33>>,
            <<33, 16>>, <<33, 17>>, <<33, 32>>,
            <<16, 16>>, <<64, 64>>, <<65536, 65536>>, <<65536, 65537>>}}
  \cup {<<MAX32, U32(33)>>, <<U32(33), MAX32>>, <<MAX32, MAX32>>}

UseFlagChoices == {{"TEXTURE"}, {"RENDERING"}, {"SCANOUT"}}

ModifierLists == UNION {[1..n -> Modifiers] : n \in 0..MaxCount}

Init ==
  /\ bo = NoBo
  /\ phase = "none"
  /\ live = {}
  /\ errno = 0
  /\ call = NoCall
  /\ ret = 0
  /\ reqs = <<>>
  /\ vma = NoVma

\* drv_bo_new of the generic layer: a fresh object for a creation request.
BoNew ==
  /\ phase = "none"
  /\ \E format \in Formats, d \in Dims : bo' = drv_bo_new(format, d[1], d[2])
  /\ phase' = "new"
  /\ call' = NoCall
  /\ ret' = 0
  /\ reqs' = <<>>
  /\ errno' = 0
  /\ UNCHANGED <<live, vma>>

Returned(r) ==
  /\ bo' = r.bo
  /\ live' = r.live
  /\ errno' = r.errno
  /\ ret' = r.ret
  /\ reqs' = r.reqs
  /\ phase' = IF r.ret = 0 THEN "ready" ELSE "failed"
  /\ UNCHANGED vma

\* backend_vc4.bo_create
BoCreate ==
  /\ phase = "new"
  /\ \E use_flags \in UseFlagChoices :
       /\ call' = [op |-> "create", use_flags |-> use_flags, modifiers |-> <<>>]
       /\ \E r \in vc4_bo_create(bo, bo.width, bo.height, bo.format, use_flags,
                                  live, errno) : Returned(r)

\* backend_vc4.bo_create_with_modifiers
BoCreateWithModifiers ==
  /\ phase = "new"
  /\ \E modifiers \in ModifierLists :
       /\ call' = [op |-> "create_with_modifiers", use_flags |-> {},
                   modifiers |-> modifiers]
       /\ \E r \in vc4_bo_create_with_modifiers(bo, bo.width, bo.height, bo.format,
                                                 modifiers, live, errno) :
            Returned(r)

\* backend_vc4.bo_destroy = drv_gem_bo_destroy, on a buffer that was created.
BoDestroy ==
  /\ phase \in {"ready", "in_use"}
  /\ LET d == drv_gem_bo_destroy(bo, live, errno, <<>>)
     IN /\ live' = d.live
        /\ errno' = d.errno
        /\ ret' = d.error
        /\ reqs' = d.reqs
  /\ call' = [op |-> "destroy", use_flags |-> {}, modifiers |-> <<>>]
  /\ bo' = NoBo
  /\ phase' = "none"
  /\ vma' = NoVma

\* backend_vc4.bo_map, on a buffer that was created, for one of its planes.
BoMap ==
  /\ phase \in {"ready", "in_use"}
  /\ \E plane \in 1..bo.num_planes, map_flags \in MapFlagChoices :
       /\ call' = [op |-> "map", use_flags |-> {}, modifiers |-> <<>>,
                   plane |-> plane, map_flags |-> map_flags]
       /\ \E r \in vc4_bo_map(bo, NoVma, plane, map_flags, live, errno) :
            /\ bo' = r.bo
            /\ vma' = r.vma
            /\ live' = r.live
            /\ errno' = r.errno
            /\ ret' = r.ret
            /\ reqs' = r.reqs
  /\ phase' = "in_use"

\* The generic layer frees the object of a creation that failed.
BoRelease ==
  /\ phase = "failed"
  /\ bo' = NoBo
  /\ phase' = "none"
  /\ call' = NoCall
  /\ ret' = 0
  /\ reqs' = <<>>
  /\ UNCHANGED <<live, errno, vma>>

Next == BoNew \/ BoCreate \/ BoCreateWithModifiers \/ BoMap \/ BoDestroy \/ BoRelease

Spec == Init /\ [][Next]_vars

-----------------------------------------------------------------------------
(* What the properties below speak about.                                   *)

\* A creation call has returned (and the object has not been given up yet).
CreateReturned == phase \in {"ready", "failed"}

\* The requests of the last call, by kind.
ReqsOf(op) == {i \in 1..Len(reqs) : reqs[i].op = op}

CreateSucceeded == CreateReturned /\ \E i \in ReqsOf("CREATE") : reqs[i].res = 0

CreateFailed == CreateReturned /\ \E i \in ReqsOf("CREATE") : reqs[i].res # 0

TilingFailed == CreateReturned /\ \E i \in ReqsOf("SET_TILING") : reqs[i].res # 0

\* The handle CREATE returned to the last call.
CreatedHandle == reqs[CHOOSE i \in ReqsOf("CREATE") : TRUE].handle

\* The modifier the request asks for, read off the arguments of the call:
\* the registered (always linear) modifier of a matching combination, or the
\* first of tiled, linear that is among the candidates.
RegisteredFormats == {"ARGB8888", "RGB565", "XRGB8888", "NV12", "YVU420"}

HasCombination ==
  /\ bo.format \in RegisteredFormats
  /\ \/ call.use_flags \subseteq {"LINEAR", "SW_ACCESS", "TEXTURE"}
     \/ /\ bo.format \in {"ARGB8888", "RGB565", "XRGB8888"}
        /\ call.use_flags \subseteq {"LINEAR", "SW_ACCESS", "TEXTURE", "RENDERING"}
     \/ /\ bo.format \in {"ARGB8888", "XRGB8888", "NV12"}
        /\ call.use_flags \subseteq {"LINEAR", "SW_ACCESS", "TEXTURE", "SCANOUT"}

RequestedModifier ==
  IF call.op = "create"
  THEN (IF HasCombination THEN "LINEAR" ELSE "INVALID")
  ELSE IF "VC4_T_TILED" \in Range(call.modifiers) THEN "VC4_T_TILED"
  ELSE IF "LINEAR" \in Range(call.modifiers) THEN "LINEAR"
  ELSE "INVALID"

-----------------------------------------------------------------------------
\* C1: whenever CREATE succeeded and the following SET_TILING failed, a
\* DESTROY request for the handle CREATE returned has been issued, after the
\* SET_TILING, by the time the creation returns, and that handle is not
\* live in the kernel any more.
C1_Rollback ==
  (CreateSucceeded /\ TilingFailed) =>
    /\ \E i \in ReqsOf("SET_TILING"), j \in ReqsOf("DESTROY") :
         /\ i < j
         /\ reqs[j].handle = CreatedHandle
    /\ CreatedHandle \notin live
    /\ phase = "failed"

\* C1 witness: a creation whose SET_TILING was refused for a live handle and
\* whose rollback DESTROY released it.
C1_Witness ==
  /\ CreateSucceeded
  /\ TilingFailed
  /\ \E j \in ReqsOf("DESTROY") : reqs[j].res = 0 /\ reqs[j].handle = CreatedHandle

\* C2, as stated: a linear creation whose CREATE succeeded issues no
\* SET_TILING and returns success with the handle live.
C2_LinearIsNoOp ==
  (CreateSucceeded /\ RequestedModifier = "LINEAR") =>
    /\ ReqsOf("SET_TILING") = {}
    /\ ret = 0
    /\ phase = "ready"
    /\ CreatedHandle \in live

\* C2, amended: every creation whose CREATE succeeded, linear or tiled,
\* issues SET_TILING next, for the created handle and with the requested
\* modifier; the creation returns success exactly when that SET_TILING
\* succeeds, and then the handle is live.
C2_TilingAlwaysSet ==
  CreateSucceeded =>
    /\ Len(reqs) >= 2
    /\ reqs[2].op = "SET_TILING"
    /\ reqs[2].handle = CreatedHandle
    /\ reqs[2].arg = RequestedModifier
    /\ (ret = 0) <=> (reqs[2].res = 0)
    /\ (ret = 0) => (phase = "ready" /\ CreatedHandle \in live /\ Len(reqs) = 2)

\* C2 witness: a linear creation that failed at SET_TILING.
C2_Witness ==
  /\ CreateSucceeded
  /\ RequestedModifier = "LINEAR"
  /\ TilingFailed
  /\ ret # 0

\* An invalid creation request: no matching combination, no candidate among
\* tiled and linear, or a tiled request for a format whose bytes per pixel
\* are not 1, 2, 4 or 8.
InvalidInput ==
  \/ RequestedModifier = "INVALID"
  \/ /\ RequestedModifier = "VC4_T_TILED"
     /\ bytes_per_pixel(bo.format)[1] \notin {1, 2, 4, 8}

\* C3: a creation whose input is invalid returns -EINVAL, has issued no
\* kernel request and has left every field of the buffer object as it was.
C3_InvalidArgument ==
  (CreateReturned /\ InvalidInput) =>
    /\ ret = -EINVAL
    /\ reqs = <<>>
    /\ bo = drv_bo_new(bo.format, bo.width, bo.height)

\* C4: when CREATE fails the creation returns the error code of that CREATE,
\* no plane records a handle, CREATE is the only request issued, and the
\* kernel's handle table is as it was (empty of handles of this call).
C4_CreateFailure ==
  CreateFailed =>
    /\ ret = -reqs[1].res
    /\ \A p \in Planes : bo.handles[p] = 0
    /\ Len(reqs) = 1
    /\ phase = "failed"
    /\ live = {}

\* C4 witness: a creation whose CREATE failed with ENOMEM (12).
C4_Witness == CreateFailed /\ reqs[1].res = 12 /\ ret = -12

\* C5: when SET_TILING fails, the creation returns the error code of that
\* SET_TILING, whatever the rollback DESTROY reports.
C5_TilingErrorCode ==
  TilingFailed =>
    \A i \in ReqsOf("SET_TILING") : ret = -reqs[i].res

\* C6: create_with_modifiers creates the buffer tiled when the tiled
\* modifier is among the candidates (whether or not linear is, and wherever
\* it stands in the list), else linear when the linear modifier is among
\* them, else fails with -EINVAL without a kernel request.
C6_Negotiation ==
  (CreateReturned /\ call.op = "create_with_modifiers") =>
    IF "VC4_T_TILED" \in Range(call.modifiers)
    THEN /\ bo.format_modifier = DRM_FORMAT_MOD_BROADCOM_VC4_T_TILED
         /\ bo.tiling \in {VC4_TILING_FORMAT_T, VC4_TILING_FORMAT_LT}
         /\ reqs # <<>>
         /\ \A i \in ReqsOf("SET_TILING") : reqs[i].arg = "VC4_T_TILED"
    ELSE IF "LINEAR" \in Range(call.modifiers)
    THEN /\ bo.format_modifier = DRM_FORMAT_MOD_LINEAR
         /\ bo.tiling = VC4_TILING_FORMAT_LINEAR
         /\ reqs # <<>>
         /\ \A i \in ReqsOf("SET_TILING") : reqs[i].arg = "LINEAR"
    ELSE ret = -EINVAL /\ reqs = <<>>

\* C6 witness: candidates listing linear before tiled, created tiled.
C6_Witness ==
  /\ phase = "ready"
  /\ call.op = "create_with_modifiers"
  /\ call.modifiers = <<"LINEAR", "VC4_T_TILED">>
  /\ bo.format_modifier = DRM_FORMAT_MOD_BROADCOM_VC4_T_TILED

\* C7: a creation for a format with more than one plane whose layout was
\* computed always uses the linear path.
C7_MultiPlaneLinear ==
  (CreateReturned /\ RequestedModifier # "INVALID"
     /\ drv_num_planes_from_format(bo.format) > 1) =>
    /\ bo.tiling = VC4_TILING_FORMAT_LINEAR
    /\ bo.format_modifier = DRM_FORMAT_MOD_LINEAR

\* The micro-tile table of the specification: bpp -> <<width, height>>.
UtileTable(bpp) ==
  CASE bpp = 1 -> <<8, 8>>
    [] bpp = 2 -> <<8, 4>>
    [] bpp = 4 -> <<4, 4>>
    [] bpp = 8 -> <<2, 4>>

\* A tiled request for a format with a supported bpp, whose layout was computed.
TiledRequest ==
  /\ CreateReturned
  /\ RequestedModifier = "VC4_T_TILED"
  /\ bytes_per_pixel(bo.format)[1] \in {1, 2, 4, 8}

SmallTiledExpected ==
  LET ut == UtileTable(bytes_per_pixel(bo.format)[1])
  IN \/ NLeq(ToNat(bo.width), NatOf(4 * ut[1]))
     \/ NLeq(ToNat(bo.height), NatOf(4 * ut[2]))

\* C8: for a tiled request with bpp 1, 2, 4 or 8 the tiling mode is LT
\* exactly when width <= 4 * utile_width or height <= 4 * utile_height, and
\* T otherwise.
C8_ModeSelection ==
  TiledRequest =>
    bo.tiling = (IF SmallTiledExpected THEN VC4_TILING_FORMAT_LT
                 ELSE VC4_TILING_FORMAT_T)

\* C8 witness: bpp 4, width 4 * 4 + 1 and a large height: MacroTiled.
C8_Witness ==
  /\ TiledRequest
  /\ bo.format = "ARGB8888"
  /\ bo.width = U32(17)
  /\ bo.height = U32(33)
  /\ bo.tiling = VC4_TILING_FORMAT_T

\* C9: for a tiled request for a single-plane format with bpp 1, 2, 4 or 8,
\* aligned_width is width rounded up to a multiple of utile_width (LT) or
\* 8 * utile_width (T), aligned_height likewise, stride is aligned_width *
\* bpp, and plane 0's size and the total size are aligned_height * stride
\* (as natural numbers, without wraparound).
C9_TiledGeometry ==
  (TiledRequest /\ drv_num_planes_from_format(bo.format) = 1) =>
    LET bpp == bytes_per_pixel(bo.format)[1]
        ut == UtileTable(bpp)
        f == IF SmallTiledExpected THEN 1 ELSE 8
        aligned_width == NRoundUp(ToNat(bo.width), f * ut[1])
        aligned_height == NRoundUp(ToNat(bo.height), f * ut[2])
        stride == NMul(aligned_width, NatOf(bpp))
    IN /\ ToNat(bo.strides[1]) = stride
       /\ ToNat(bo.sizes[1]) = NMul(aligned_height, stride)
       /\ bo.total_size = bo.sizes[1]

\* C10: on the linear path plane 0's stride is the Format Helper's stride
\* rounded up to the next multiple of 64: a multiple of 64 that is not
\* smaller than the helper's stride.
C10_LinearStride ==
  (CreateReturned /\ RequestedModifier = "LINEAR") =>
    LET helper == ToNat(drv_stride_from_format(bo.format, bo.width, 1))
        stride == ToNat(bo.strides[1])
    IN /\ stride = NRoundUp(helper, 64)
       /\ Dig(stride, 1) % 64 = 0
       /\ NLeq(helper, stride)

-----------------------------------------------------------------------------
\* A call of vc4_bo_map has returned, and nothing was called since.
MapReturned == phase = "in_use" /\ call.op = "map"

MapFailedStep == phase \in {"ready", "in_use"} /\ phase' = "in_use" /\ ret' = MAP_FAILED

\* C11: a map that fails, at the offset request or at mmap, returns
\* MAP_FAILED, issues no DESTROY and leaves the object's handles and layout
\* and the kernel's handle table as they were: the buffer is still created,
\* its handle live, so that it can be mapped again or destroyed.
C11_MapNonDestructive ==
  [][MapFailedStep =>
       /\ bo' = bo
       /\ live' = live
       /\ \A i \in 1..Len(reqs') : reqs'[i].op # "DESTROY"
       /\ \E i \in 1..Len(reqs') : reqs'[i].res # 0
       /\ \A p \in 1..bo'.num_planes : bo'.handles[p] \in live']_vars

\* A map failed at mmap, after its offset request succeeded; the handle is
\* still live.
C11_Witness ==
  /\ MapReturned
  /\ ret = MAP_FAILED
  /\ Len(reqs) = 2
  /\ reqs[1].res = 0
  /\ reqs[2].res # 0
  /\ bo.handles[1] \in live

\* The modifier vc4_bo_create_for_modifier was called with, as it passes it
\* on to the kernel with SET_TILING (line 158).
ExplicitModifier == reqs[CHOOSE i \in ReqsOf("SET_TILING") : TRUE].arg

\* C12: after a successful creation for the modifier m, the object records m
\* as its modifier, and its tiling mode agrees with m: Linear for the linear
\* modifier, SmallTiled (LT) or MacroTiled (T) for the tiled one.
C12_ModifierRoundTrip ==
  phase = "ready" =>
    /\ ReqsOf("SET_TILING") # {}
    /\ ExplicitModifier \in {"LINEAR", "VC4_T_TILED"}
    /\ bo.format_modifier = ExplicitModifier
    /\ bo.format_modifier = "LINEAR" => bo.tiling = VC4_TILING_FORMAT_LINEAR
    /\ bo.format_modifier = "VC4_T_TILED" =>
         bo.tiling \in {VC4_TILING_FORMAT_LT, VC4_TILING_FORMAT_T}

\* A successful creation for the tiled modifier, in SmallTiled mode.
C12_Witness ==
  /\ phase = "ready"
  /\ ReqsOf("SET_TILING") # {}
  /\ ExplicitModifier = "VC4_T_TILED"
  /\ bo.format_modifier = "VC4_T_TILED"
  /\ bo.tiling = VC4_TILING_FORMAT_LT

\* C13: whenever a creation has returned success, every plane of the format
\* records one and the same handle, the one this call's CREATE returned, and
\* that handle is live: the call issued no DESTROY and the kernel's table
\* holds it.
C13_ReadyHandles ==
  phase = "ready" =>
    /\ CreateSucceeded
    /\ \A p \in 1..bo.num_planes : bo.handles[p] = CreatedHandle
    /\ CreatedHandle \in live
    /\ ReqsOf("DESTROY") = {}

\* A successful creation of a three-plane buffer.
C13_Witness ==
  /\ phase = "ready"
  /\ bo.num_planes = 3
  /\ CreateSucceeded
  /\ bo.handles[3] = CreatedHandle
  /\ CreatedHandle \in live

\* The minimum alignment of plane 0's stride in the recorded tiling mode:
\* 64 (Linear), utile_width * bpp (SmallTiled), 8 * utile_width * bpp
\* (MacroTiled).
MinAlignment ==
  LET bpp == bytes_per_pixel(bo.format)[1]
  IN IF bo.tiling = VC4_TILING_FORMAT_LINEAR THEN 64
     ELSE IF bo.tiling = VC4_TILING_FORMAT_LT THEN vc4_utile_width(bpp) * bpp
     ELSE 8 * vc4_utile_width(bpp) * bpp

\* C14: after every successful creation, whatever the width and height
\* (zero included), plane 0's stride is positive and a multiple of the
\* minimum alignment of the tiling mode, and the size sent with CREATE is the
\* total size recorded on the object.
C14_StrideInvariant ==
  phase = "ready" =>
    /\ ToNat(bo.strides[1]) # <<>>
    /\ MinAlignment > 0
    /\ NRoundUp(ToNat(bo.strides[1]), MinAlignment) = ToNat(bo.strides[1])
    /\ \A i \in ReqsOf("CREATE") : reqs[i].arg = bo.total_size

\* The kinds of the requests of the last call, in the order issued.
RequestOps == [i \in 1..Len(reqs) |-> reqs[i].op]

\* C15: the kernel requests of one creation call are, in order, none, or
\* CREATE, or CREATE and SET_TILING, or CREATE, SET_TILING and DESTROY.
\* CREATE carries the total size of the layout computed for the request,
\* SET_TILING follows only a CREATE that succeeded and DESTROY only a
\* SET_TILING that failed, both for the created handle, and no request is
\* issued twice.
C15_RequestOrdering ==
  CreateReturned =>
    /\ RequestOps \in {<<>>, <<"CREATE">>, <<"CREATE", "SET_TILING">>,
                        <<"CREATE", "SET_TILING", "DESTROY">>}
    /\ Len(reqs) >= 1 =>
         /\ reqs[1].arg = bo.total_size
         /\ bo.total_size =
              Layout(drv_bo_new(bo.format, bo.width, bo.height), bo.width,
                     bo.height, bo.format, bo.format_modifier).total_size
    /\ Len(reqs) >= 2 => reqs[1].res = 0 /\ reqs[2].handle = reqs[1].handle
    /\ Len(reqs) = 3 => reqs[2].res # 0 /\ reqs[3].handle = reqs[1].handle

\* A creation that issued all three requests: SET_TILING failed and the
\* rollback destroyed the created handle.
C15_Witness ==
  /\ phase = "failed"
  /\ RequestOps = <<"CREATE", "SET_TILING", "DESTROY">>
  /\ reqs[1].res = 0
  /\ reqs[2].res # 0

\* C16: whatever plane vc4_bo_map is called for, its offset request names
\* the handle of plane 0, and when it returns a mapping the mapping was made
\* over total_size bytes and the length recorded in the vma is the object's
\* total size: the recorded length does not exceed the total size.
C16_MappingLength ==
  MapReturned =>
    /\ Len(reqs) >= 1
    /\ reqs[1].op = "MMAP_BO"
    /\ reqs[1].handle = bo.handles[1]
    /\ ret # MAP_FAILED =>
         /\ Len(reqs) = 2
         /\ reqs[2].op = "mmap"
         /\ reqs[2].arg[1] = bo.total_size
         /\ vma.length = bo.total_size
         /\ NLeq(ToNat(vma.length), ToNat(bo.total_size))

\* The second plane of a two-plane buffer was mapped.
C16_Witness ==
  /\ MapReturned
  /\ bo.num_planes = 2
  /\ call.plane = 2
  /\ ret # MAP_FAILED
  /\ ToNat(vma.length) # <<>>
  /\ vma.length # bo.sizes[2]

\* C17: for every successful tiled creation of a format with 1, 2, 4 or 8
\* bytes per pixel the size sent with CREATE is at least width * height *
\* bpp as natural numbers: the 32-bit alignment, stride and size
\* computations never wrap to a smaller value.
C17_AllocationLargeEnough ==
  (/\ phase = "ready"
   /\ bo.format_modifier = "VC4_T_TILED"
   /\ bytes_per_pixel(bo.format)[1] \in {1, 2, 4, 8}) =>
    \A i \in ReqsOf("CREATE") :
      NLeq(NMul(NMul(ToNat(bo.width), ToNat(bo.height)),
                NatOf(bytes_per_pixel(bo.format)[1])),
           ToNat(reqs[i].arg))

\* C18: after a creation that returned an error no plane of the object
\* records the handle this call's CREATE returned, so that bo_destroy
\* (drv_gem_bo_destroy) on the object would issue no DESTROY for a handle
\* the rollback has already destroyed.
C18_NoDanglingHandle ==
  phase = "failed" =>
    /\ CreateSucceeded => \A p \in Planes : bo.handles[p] # CreatedHandle
    /\ LET d == drv_gem_bo_destroy(bo, live, errno, <<>>)
       IN \A j \in 1..Len(d.reqs), i \in ReqsOf("DESTROY") :
            d.reqs[j].handle # reqs[i].handle

====
